---- MODULE Spec2Model ----
(***************************************************************************)
(* Minecraft World Mapper: the session's location collection (app.py),     *)
(* its full-overwrite persistence to a Google Sheet (google_sheets.py)     *)
(* and the image upload (cloudinary_uploader.py).                          *)
(*                                                                         *)
(* Python values are tagged tuples: None, ints, strings (sequences of      *)
(* one-character strings) and lists.  A dict is the sequence of its        *)
(* <<key, value>> pairs in insertion order.  A sheet is a sequence of      *)
(* rows of text cells, the first row being the header.                     *)
(***************************************************************************)
EXTENDS Integers, Sequences, FiniteSets, TLC

\* ------------------------------------------------------------------ bounds
MaxOps == 2        \* user actions per session
MaxFiles == 2      \* files submitted in one form
MaxLegacy == 2     \* records in locations.json
MaxClock == 1      \* clock seconds that pass during the session
MaxCell == 4       \* characters in a hand-edited image_paths cell
MaxPathLen == 2    \* characters in an image path

\* ------------------------------------------------------ Python values
PyNone == <<"none">>
PyInt(n) == <<"int", n>>
PyStr(s) == <<"str", s>>
PyList(l) == <<"list", l>>

IsNone(v) == v[1] = "none"
IsInt(v) == v[1] = "int"
IsStr(v) == v[1] = "str"
IsList(v) == v[1] = "list"

\* Python truthiness of a value
Truthy(v) ==
    CASE IsNone(v) -> FALSE
      [] IsInt(v) -> v[2] # 0
      [] OTHER -> Len(v[2]) > 0

\* ------------------------------------------------------------- dicts
Keys(d) == [i \in 1..Len(d) |-> d[i][1]]
Has(d, k) == \E i \in 1..Len(d) : d[i][1] = k
Get(d, k) == d[CHOOSE i \in 1..Len(d) : d[i][1] = k][2]
GetOr(d, k, dflt) == IF Has(d, k) THEN Get(d, k) ELSE dflt
Put(d, k, v) ==
    IF Has(d, k)
    THEN [i \in 1..Len(d) |-> IF d[i][1] = k THEN <<k, v>> ELSE d[i]]
    ELSE Append(d, <<k, v>>)
Del(d, k) == SelectSeq(d, LAMBDA p : p[1] # k)

\* ----------------------------------------------------------- strings
Q == "\""          \* the double quote character
B == "\\"          \* the backslash character
SP == " "
Digit == <<"0", "1", "2", "3", "4", "5", "6", "7", "8", "9">>
IsDigit(c) == \E i \in 1..10 : Digit[i] = c
DigitVal(c) == (CHOOSE i \in 1..10 : Digit[i] = c) - 1

RECURSIVE NatStr(_)
NatStr(n) == IF n < 10 THEN <<Digit[n + 1]>> ELSE NatStr(n \div 10) \o <<Digit[(n % 10) + 1]>>

\* str(n) / f"{n}"
IntStr(n) == IF n < 0 THEN <<"-">> \o NatStr(0 - n) ELSE NatStr(n)

RECURSIVE StrNat(_)
StrNat(s) == IF Len(s) = 0 THEN 0 ELSE 10 * StrNat(SubSeq(s, 1, Len(s) - 1)) + DigitVal(s[Len(s)])

RECURSIVE LStrip(_)
LStrip(s) == IF Len(s) > 0 /\ s[1] = SP THEN LStrip(Tail(s)) ELSE s
RECURSIVE RStrip(_)
RStrip(s) == IF Len(s) > 0 /\ s[Len(s)] = SP THEN RStrip(SubSeq(s, 1, Len(s) - 1)) ELSE s
\* str.strip()
Strip(s) == RStrip(LStrip(s))

\* str.split(","): the pieces between commas, empty pieces included
RECURSIVE SplitComma(_, _)
SplitComma(s, cur) ==
    IF Len(s) = 0 THEN <<cur>>
    ELSE IF s[1] = "," THEN <<cur>> \o SplitComma(Tail(s), <<>>)
    ELSE SplitComma(Tail(s), Append(cur, s[1]))

\* ------------------------------------------------------------- json
\* an escaping that leaves the backslash alone
RECURSIVE JsonEscapeQuoteOnly(_)
JsonEscapeQuoteOnly(s) ==
    IF Len(s) = 0 THEN <<>>
    ELSE (IF s[1] = Q THEN <<B, s[1]>> ELSE <<s[1]>>) \o JsonEscapeQuoteOnly(Tail(s))

\* json.dumps escaping of one string
RECURSIVE JsonEscape(_)
JsonEscape(s) ==
    IF Len(s) = 0 THEN <<>>
    ELSE (IF s[1] = Q \/ s[1] = B THEN <<B, s[1]>> ELSE <<s[1]>>) \o JsonEscape(Tail(s))

RECURSIVE JsonDumps(_)
RECURSIVE JsonDumpsItems(_)
JsonDumpsItems(l) ==
    IF Len(l) = 0 THEN <<>>
    ELSE JsonDumps(l[1]) \o (IF Len(l) > 1 THEN <<",", SP>> ELSE <<>>) \o JsonDumpsItems(Tail(l))
\* json.dumps(v) with the default separators
JsonDumps(v) ==
    CASE IsNone(v) -> <<"n", "u", "l", "l">>
      [] IsInt(v) -> IntStr(v[2])
      [] IsStr(v) -> <<Q>> \o JsonEscape(v[2]) \o <<Q>>
      [] IsList(v) -> <<"[">> \o JsonDumpsItems(v[2]) \o <<"]">>

\* json.loads: a parse result is [ok, v, rest]; ok = FALSE is JSONDecodeError
Fail == [ok |-> FALSE, v |-> PyNone, rest |-> <<>>]
RECURSIVE SkipWs(_)
SkipWs(s) == IF Len(s) > 0 /\ s[1] = SP THEN SkipWs(Tail(s)) ELSE s

\* the characters of a string body up to the closing quote
RECURSIVE ParseStrBody(_, _)
ParseStrBody(s, acc) ==
    IF Len(s) = 0 THEN Fail
    ELSE IF s[1] = Q THEN [ok |-> TRUE, v |-> PyStr(acc), rest |-> Tail(s)]
    ELSE IF s[1] = B
         THEN IF Len(s) >= 2 /\ (s[2] = Q \/ s[2] = B)
              THEN ParseStrBody(Tail(Tail(s)), Append(acc, s[2]))
              ELSE Fail
    ELSE ParseStrBody(Tail(s), Append(acc, s[1]))

RECURSIVE TakeDigits(_)
TakeDigits(s) == IF Len(s) > 0 /\ IsDigit(s[1]) THEN <<s[1]>> \o TakeDigits(Tail(s)) ELSE <<>>

\* a JSON integer: -? (0 | [1-9][0-9]*)
ParseNum(s) ==
    LET neg == Len(s) > 0 /\ s[1] = "-"
        t == IF neg THEN Tail(s) ELSE s
        ds == TakeDigits(t)
        used == IF Len(ds) > 0 /\ ds[1] = "0" THEN 1 ELSE Len(ds)
        n == StrNat(SubSeq(ds, 1, used))
    IN IF Len(ds) = 0 THEN Fail
       ELSE [ok |-> TRUE, v |-> PyInt(IF neg THEN 0 - n ELSE n),
             rest |-> SubSeq(t, used + 1, Len(t))]

RECURSIVE ParseValue(_)
RECURSIVE ParseItems(_, _)
\* after "[" or ",": one value, then "," or "]"
ParseItems(s, acc) ==
    LET r == ParseValue(SkipWs(s))
        t == SkipWs(r.rest)
    IN IF ~r.ok THEN Fail
       ELSE IF Len(t) = 0 THEN Fail
       ELSE IF t[1] = "," THEN ParseItems(Tail(t), Append(acc, r.v))
       ELSE IF t[1] = "]" THEN [ok |-> TRUE, v |-> PyList(Append(acc, r.v)), rest |-> Tail(t)]
       ELSE Fail
ParseValue(s) ==
    IF Len(s) = 0 THEN Fail
    ELSE IF s[1] = Q THEN ParseStrBody(Tail(s), <<>>)
    ELSE IF s[1] = "[" THEN
         LET t == SkipWs(Tail(s))
         IN IF Len(t) > 0 /\ t[1] = "]"
            THEN [ok |-> TRUE, v |-> PyList(<<>>), rest |-> Tail(t)]
            ELSE ParseItems(t, <<>>)
    ELSE IF s[1] = "-" \/ IsDigit(s[1]) THEN ParseNum(s)
    ELSE Fail

\* json.loads(s): the whole text must be one value
JsonLoads(s) ==
    LET r == ParseValue(SkipWs(s))
    IN IF r.ok /\ Len(SkipWs(r.rest)) = 0 THEN r ELSE Fail

\* ------------------------------------------------- google_sheets.py
\* gspread's numericise, applied by get_all_records to every cell: text
\* that int() accepts becomes an int, anything else stays text
IsIntText(t) ==
    LET d == IF Len(t) > 0 /\ t[1] = "-" THEN Tail(t) ELSE t
    IN Len(d) > 0 /\ \A i \in 1..Len(d) : IsDigit(d[i])
\* a numericise with empty2zero set: the empty cell becomes 0
NumericiseEmpty2Zero(cell) ==
    LET t == Strip(cell)
    IN IF Len(cell) = 0 THEN PyInt(0)
       ELSE IF IsIntText(t)
       THEN PyInt(IF t[1] = "-" THEN 0 - StrNat(Tail(t)) ELSE StrNat(t))
       ELSE PyStr(cell)

Numericise(cell) ==
    LET t == Strip(cell)
    IN IF IsIntText(t)
       THEN PyInt(IF t[1] = "-" THEN 0 - StrNat(Tail(t)) ELSE StrNat(t))
       ELSE PyStr(cell)

\* worksheet.get_all_records(): one dict per row below the header
GetAllRecords(sheet) ==
    IF Len(sheet) = 0 THEN <<>>
    ELSE [i \in 1..(Len(sheet) - 1) |->
            [j \in 1..Len(sheet[1]) |-> <<sheet[1][j], Numericise(sheet[i + 1][j])>>]]

\* [url.strip() for url in s.split(",") if url.strip()]
SplitUrls(s) ==
    LET pieces == SplitComma(s, <<>>)
        kept == SelectSeq(pieces, LAMBDA p : Len(Strip(p)) > 0)
    IN [i \in 1..Len(kept) |-> PyStr(Strip(kept[i]))]

\* the decoding without its try/except: a JSONDecodeError leaves the loop
DecodeImagePathsNoTry(s) ==
    IF Len(s) > 0 /\ s[1] = "["
    THEN LET r == JsonLoads(s)
         IN [raised |-> ~r.ok, v |-> IF r.ok THEN r.v ELSE PyNone]
    ELSE IF Len(s) > 0 THEN [raised |-> FALSE, v |-> PyList(SplitUrls(s))]
    ELSE [raised |-> FALSE, v |-> PyList(<<>>)]

\* the image_paths cell of one row, inside its try/except: [raised, v]
DecodeImagePaths(s) ==
    IF Len(s) > 0 /\ s[1] = "["
    THEN LET r == JsonLoads(s)
         IN [raised |-> FALSE, v |-> IF r.ok THEN r.v ELSE PyList(<<>>)]
    ELSE IF Len(s) > 0 THEN [raised |-> FALSE, v |-> PyList(SplitUrls(s))]
    ELSE [raised |-> FALSE, v |-> PyList(<<>>)]

EmptyToNone(row, col) ==
    IF Has(row, col) /\ Get(row, col) = PyStr(<<>>) THEN Put(row, col, PyNone) ELSE row

\* the body of load_data's loop: [raised, row]
CleanRow(row) ==
    LET dec == IF Has(row, "image_paths") /\ IsStr(Get(row, "image_paths"))
               THEN DecodeImagePaths(Get(row, "image_paths")[2])
               ELSE [raised |-> FALSE, v |-> PyNone]
        r1 == IF Has(row, "image_paths") /\ IsStr(Get(row, "image_paths"))
              THEN Put(row, "image_paths", dec.v)
              ELSE row
    IN [raised |-> dec.raised,
        row |-> EmptyToNone(EmptyToNone(EmptyToNone(r1, "x"), "y"), "z")]

\* outcomes of one round trip to the sheet
LoadNet == {"ok", "nosheet", "readfail"}
SaveNet == {"ok", "nosheet", "clearfail", "updatefail"}

\* a load_data whose read is outside its try
LoadDataRaising(sheet, net) ==
    IF net = "nosheet" THEN [raised |-> FALSE, error |-> FALSE, rows |-> <<>>]
    ELSE IF net = "readfail" THEN [raised |-> TRUE, error |-> FALSE, rows |-> <<>>]
    ELSE LET records == GetAllRecords(sheet)
             cleaned == [i \in 1..Len(records) |-> CleanRow(records[i])]
         IN [raised |-> \E i \in 1..Len(cleaned) : cleaned[i].raised, error |-> FALSE,
             rows |-> [i \in 1..Len(cleaned) |-> cleaned[i].row]]

\* load_data(): [raised, error, rows]; error is the st.error of its except
LoadData(sheet, net) ==
    IF net = "nosheet" THEN [raised |-> FALSE, error |-> FALSE, rows |-> <<>>]
    ELSE IF net = "readfail" THEN [raised |-> FALSE, error |-> TRUE, rows |-> <<>>]
    ELSE LET records == GetAllRecords(sheet)
             cleaned == [i \in 1..Len(records) |-> CleanRow(records[i])]
         IN IF \E i \in 1..Len(cleaned) : cleaned[i].raised
            THEN [raised |-> FALSE, error |-> TRUE, rows |-> <<>>]
            ELSE [raised |-> FALSE, error |-> FALSE,
                  rows |-> [i \in 1..Len(cleaned) |-> cleaned[i].row]]

required_cols == <<"id", "name", "x", "y", "z", "description", "icon", "image_paths">>

\* the columns of pd.DataFrame(data): the keys in order of first occurrence
RECURSIVE AddKeys(_, _)
AddKeys(cols, ks) ==
    IF Len(ks) = 0 THEN cols
    ELSE IF \E i \in 1..Len(cols) : cols[i] = ks[1]
    THEN AddKeys(cols, Tail(ks))
    ELSE AddKeys(Append(cols, ks[1]), Tail(ks))
\* a frame that takes its columns from the first record only
FrameColumnsFirst(data, cols) ==
    IF Len(data) = 0 THEN cols ELSE AddKeys(cols, Keys(data[1]))

RECURSIVE FrameColumns(_, _)
FrameColumns(data, cols) ==
    IF Len(data) = 0 THEN cols ELSE FrameColumns(Tail(data), AddKeys(cols, Keys(data[1])))

\* the text of a cell written by worksheet.update and read back
CellText(v) ==
    CASE IsNone(v) -> <<>>
      [] IsInt(v) -> IntStr(v[2])
      [] IsStr(v) -> v[2]

\* one cell of df after the image_paths conversion and fillna("")
EncodeCell(d, col) ==
    IF col = "image_paths"
    THEN IF Has(d, col) /\ IsList(Get(d, col)) THEN JsonDumps(Get(d, col)) ELSE <<"[", "]">>
    ELSE IF Has(d, col) THEN CellText(Get(d, col)) ELSE <<>>

\* [header] + values
EncodeSheet(data) ==
    LET header == AddKeys(FrameColumns(data, <<>>), required_cols)
    IN <<header>> \o [i \in 1..Len(data) |-> [j \in 1..Len(header) |-> EncodeCell(data[i], header[j])]]

\* a save_all_data without the early return for an empty collection: the
\* empty DataFrame gets the required columns and its header is written
SaveAllDataNoEmptyCase(data, sheet, net) ==
    IF net = "nosheet" THEN [raised |-> FALSE, ok |-> FALSE, sheet |-> sheet]
    ELSE IF net = "clearfail" THEN [raised |-> FALSE, ok |-> FALSE, sheet |-> sheet]
    ELSE IF net = "updatefail" THEN [raised |-> FALSE, ok |-> FALSE, sheet |-> <<>>]
    ELSE [raised |-> FALSE, ok |-> TRUE, sheet |-> EncodeSheet(data)]

\* a save_all_data whose clear and update are outside its try
SaveAllDataRaising(data, sheet, net) ==
    IF net = "nosheet" THEN [raised |-> FALSE, ok |-> FALSE, sheet |-> sheet]
    ELSE IF net = "clearfail" THEN [raised |-> TRUE, ok |-> FALSE, sheet |-> sheet]
    ELSE IF Len(data) = 0 THEN [raised |-> FALSE, ok |-> TRUE, sheet |-> <<>>]
    ELSE IF net = "updatefail" THEN [raised |-> TRUE, ok |-> FALSE, sheet |-> <<>>]
    ELSE [raised |-> FALSE, ok |-> TRUE, sheet |-> EncodeSheet(data)]

\* save_all_data(data): [raised, ok, sheet]
SaveAllData(data, sheet, net) ==
    IF net = "nosheet" THEN [raised |-> FALSE, ok |-> FALSE, sheet |-> sheet]
    ELSE IF net = "clearfail" THEN [raised |-> FALSE, ok |-> FALSE, sheet |-> sheet]
    ELSE IF Len(data) = 0 THEN [raised |-> FALSE, ok |-> TRUE, sheet |-> <<>>]
    ELSE IF net = "updatefail" THEN [raised |-> FALSE, ok |-> FALSE, sheet |-> <<>>]
    ELSE [raised |-> FALSE, ok |-> TRUE, sheet |-> EncodeSheet(data)]

\* worksheet.update(values) without a range: the values are written from
\* cell A1 on, and a cell that they do not cover keeps what it holds
Overlay(sheet, values) ==
    [i \in 1..(IF Len(sheet) > Len(values) THEN Len(sheet) ELSE Len(values)) |->
        IF i > Len(values) THEN sheet[i]
        ELSE IF i > Len(sheet) THEN values[i]
        ELSE values[i] \o SubSeq(sheet[i], Len(values[i]) + 1, Len(sheet[i]))]

\* --------------------------------------------- cloudinary_uploader.py
\* what cloudinary.uploader.upload does with a file: it answers with a
\* secure_url, it raises, or it answers without a secure_url
UploadOutcome == {"ok", "raise", "nourl"}
UrlOf(i) == <<"h", Digit[i + 1]>>
\* upload_image(file): the secure URL, or None
upload_image(i, outcome) == IF outcome = "ok" THEN PyStr(UrlOf(i)) ELSE PyNone
\* the st.error calls of upload_image
UploadReports(outcome) == IF outcome = "raise" THEN << <<"error", "cloudinary">> >> ELSE <<>>

\* -------------------------------------------------------------- app.py
VARIABLES
    store,        \* the worksheet: rows of text cells, header first
    loaded,       \* "locations" in st.session_state
    locations,    \* st.session_state.locations
    edit_mode,    \* st.session_state.edit_mode
    edit_id,      \* st.session_state.edit_id
    now,          \* the clock, in seconds
    nops,         \* user actions handled so far
    last,         \* what the last handler did: its reports, uploads and saves
    saving        \* save_all_data calls of concurrent sessions that are under way
vars == <<store, loaded, locations, edit_mode, edit_id, now, nops, last, saving>>

\* datetime.now().strftime("%Y%m%d%H%M%S"): the digits of the second, the
\* session starting in second 20
Strftime(t) == NatStr(20 + t)

Lit(w) == PyStr(<<w>>)      \* a literal kept as one token

\* a handler's record: kind, its input, the st.* reports, the upload_image
\* calls <<file, outcome>>, the save_data calls [data, ok], the collection
\* and the sheet before it ran, the count it computed, whether an exception
\* left it, and kind and input of the handler before it; and of the session
\* as a whole the sheet it started on and the ids of the locations that its
\* "Delete" buttons popped
Did(kind, arg, reports, uploads, saves, added, raised) ==
    [kind |-> kind, arg |-> arg, reports |-> reports, uploads |-> uploads,
     saves |-> saves, added |-> added, raised |-> raised,
     before |-> locations, sheet |-> store,
     prev |-> [kind |-> last.kind, arg |-> last.arg, saves |-> last.saves],
     start |-> last.start,
     removed |-> IF kind = "delete"
                 THEN last.removed \cup {CellText(Get(locations[arg[1]], "id"))}
                 ELSE last.removed]

\* the st.error of a failed round trip to the sheet
NetReports(net) == IF net = "ok" THEN <<>> ELSE << <<"error", "sheet">> >>

\* session start: st.session_state.locations = load_data()
Load(net) ==
    /\ ~loaded
    /\ LET r == LoadData(store, net)
       IN /\ loaded' = ~r.raised
          /\ locations' = r.rows
          /\ last' = Did("load", <<IF net = "ok" THEN "ok" ELSE "down">>,
                         IF r.error THEN << <<"error", "sheet">> >> ELSE NetReports(net),
                         <<>>, <<>>, 0, r.raised)
    /\ UNCHANGED <<store, edit_mode, edit_id, now, nops, saving>>

\* the upload loop of a form: [paths, reports] after the files, in order;
\* warn is whether the loop has the st.warning branch
RECURSIVE UploadAll(_, _, _, _, _)
UploadAll(files, i, paths, reports, warn) ==
    IF i > Len(files) THEN [paths |-> paths, reports |-> reports]
    ELSE LET url == upload_image(i, files[i])
             errs == UploadReports(files[i])
         IN IF Truthy(url)
            THEN UploadAll(files, i + 1, Append(paths, url), reports \o errs, warn)
            ELSE UploadAll(files, i + 1, paths,
                           reports \o errs \o
                             (IF warn THEN << <<"warning", "upload">> >> ELSE <<>>),
                           warn)
Uploads(files) == [i \in 1..Len(files) |-> <<i, files[i]>>]

\* "{v}" in an f-string, for a coordinate
Fmt(v) == IF IsNone(v) THEN <<"None">> ELSE IntStr(v[2])

\* final_name = name.strip() if name else f"Location @ {x}, {z}"
FinalName(name, x, z) ==
    IF Len(name) > 0 THEN PyStr(Strip(name))
    ELSE PyStr(<<"Location @ ">> \o Fmt(x) \o <<", ">> \o Fmt(z))

\* a validation that takes the height for optional
CoordsMissingXZ(x, y, z) == IsNone(x) \/ IsNone(z)

\* x_coord is None or y_coord is None or z_coord is None
CoordsMissing(x, y, z) == IsNone(x) \/ IsNone(y) \/ IsNone(z)

\* the sidebar form "Save Location"
AddLocation(name, x, y, z, icon, files, net) ==
    /\ loaded /\ nops < MaxOps
    /\ nops' = nops + 1
    /\ IF CoordsMissing(x, y, z)
       THEN /\ last' = Did("add", <<x, y, z, name>>, << <<"error", "coords">> >>, <<>>, <<>>, 0, FALSE)
            /\ UNCHANGED <<store, locations>>
       ELSE LET up == UploadAll(files, 1, <<>>, <<>>, TRUE)
                new_location ==
                    << <<"id", PyStr(Strftime(now))>>,
                       <<"name", FinalName(name, x, z)>>,
                       <<"x", x>>, <<"y", y>>, <<"z", z>>,
                       <<"description", PyStr(<<>>)>>,
                       <<"image_paths", PyList(up.paths)>>,
                       <<"icon", icon>>,
                       <<"bg_color", Lit("Default (#F5DEB3)")>> >>
                locs == Append(locations, new_location)
                sv == SaveAllData(locs, store, net)
            IN /\ locations' = locs
               /\ store' = sv.sheet
               /\ last' = Did("add", <<x, y, z, name>>,
                              up.reports \o NetReports(IF sv.ok THEN "ok" ELSE net)
                                \o (IF sv.raised THEN <<>> ELSE << <<"success", "saved">> >>),
                              Uploads(files),
                              << [data |-> locs, ok |-> sv.ok] >>, 0, sv.raised)
    /\ UNCHANGED <<loaded, edit_mode, edit_id, now, saving>>

\* a fix that drops image_path only from the records it converts
FixLegacyKeepPath(item) ==
    LET i1 == IF Has(item, "icon") THEN item ELSE Put(item, "icon", Lit("Default"))
    IN IF Has(i1, "image_paths") THEN i1
       ELSE IF Has(i1, "image_path") /\ Truthy(Get(i1, "image_path"))
            THEN Del(Put(i1, "image_paths", PyList(<<Get(i1, "image_path")>>)), "image_path")
            ELSE Del(Put(i1, "image_paths", PyList(<<>>)), "image_path")

\* the compatibility fix applied to one legacy record
FixLegacy(item) ==
    LET i1 == IF Has(item, "icon") THEN item ELSE Put(item, "icon", Lit("Default"))
        i2 == IF Has(i1, "image_paths") THEN i1
              ELSE IF Has(i1, "image_path") /\ Truthy(Get(i1, "image_path"))
                   THEN Put(i1, "image_paths", PyList(<<Get(i1, "image_path")>>))
                   ELSE Put(i1, "image_paths", PyList(<<>>))
    IN Del(i2, "image_path")

\* a merge loop that never looks at current_ids
RECURSIVE MergeLegacyNoCheck(_, _, _, _)
MergeLegacyNoCheck(locs, current_ids, items, added) ==
    IF Len(items) = 0 THEN [locs |-> locs, added |-> added, raised |-> FALSE]
    ELSE LET item == FixLegacy(items[1])
         IN IF ~Has(item, "id") THEN [locs |-> locs, added |-> added, raised |-> TRUE]
            ELSE MergeLegacyNoCheck(Append(locs, item), current_ids, Tail(items), added + 1)

\* a merge in which an imported record replaces the one of the same id
RECURSIVE MergeLegacyOverwrite(_, _, _, _)
MergeLegacyOverwrite(locs, current_ids, items, added) ==
    IF Len(items) = 0 THEN [locs |-> locs, added |-> added, raised |-> FALSE]
    ELSE LET item == FixLegacy(items[1])
         IN IF ~Has(item, "id") THEN [locs |-> locs, added |-> added, raised |-> TRUE]
            ELSE IF Get(item, "id") \notin current_ids
                 THEN MergeLegacyOverwrite(Append(locs, item), current_ids, Tail(items), added + 1)
                 ELSE MergeLegacyOverwrite(
                         [i \in 1..Len(locs) |->
                            IF Get(locs[i], "id") = Get(item, "id") THEN item ELSE locs[i]],
                         current_ids, Tail(items), added)

\* the merge loop over old_data: [locs, added, raised]; item["id"] of a
\* record without id raises KeyError and ends the loop
RECURSIVE MergeLegacy(_, _, _, _)
MergeLegacy(locs, current_ids, items, added) ==
    IF Len(items) = 0 THEN [locs |-> locs, added |-> added, raised |-> FALSE]
    ELSE LET item == FixLegacy(items[1])
         IN IF ~Has(item, "id") THEN [locs |-> locs, added |-> added, raised |-> TRUE]
            ELSE IF Get(item, "id") \notin current_ids
                 THEN MergeLegacy(Append(locs, item), current_ids, Tail(items), added + 1)
                 ELSE MergeLegacy(locs, current_ids, Tail(items), added)

\* the button "Load from 'locations.json' & Upload"; file.state is "missing",
\* "unreadable" (json.load raises) or "ok" with file.data the parsed content
Migrate(file, net) ==
    /\ loaded /\ nops < MaxOps
    /\ nops' = nops + 1
    /\ IF file.state = "missing"
       THEN /\ last' = Did("migrate", file, << <<"error", "not found">> >>, <<>>, <<>>, 0, FALSE)
            /\ UNCHANGED <<store, locations>>
       ELSE IF file.state = "unreadable"
       THEN /\ last' = Did("migrate", file, << <<"error", "reading">> >>, <<>>, <<>>, 0, FALSE)
            /\ UNCHANGED <<store, locations>>
       ELSE IF Len(file.data) = 0
       THEN /\ last' = Did("migrate", file, << <<"warning", "empty">> >>, <<>>, <<>>, 0, FALSE)
            /\ UNCHANGED <<store, locations>>
       ELSE IF \E i \in 1..Len(locations) : ~Has(locations[i], "id")
       THEN /\ last' = Did("migrate", file, << <<"info", "found">>, <<"error", "reading">> >>,
                           <<>>, <<>>, 0, FALSE)
            /\ UNCHANGED <<store, locations>>
       ELSE LET current_ids == {Get(locations[i], "id") : i \in 1..Len(locations)}
                m == MergeLegacy(locations, current_ids, file.data, 0)
                sv == SaveAllData(m.locs, store, net)
            IN /\ locations' = m.locs
               /\ IF m.raised
                  THEN /\ last' = Did("migrate", file,
                                      << <<"info", "found">>, <<"error", "reading">> >>,
                                      <<>>, <<>>, m.added, FALSE)
                       /\ UNCHANGED store
                  ELSE IF m.added > 0
                  THEN /\ store' = sv.sheet
                       /\ last' = Did("migrate", file,
                                      << <<"info", "found">> >>
                                        \o NetReports(IF sv.ok THEN "ok" ELSE net)
                                        \o (IF sv.raised THEN << <<"error", "reading">> >>
                                            ELSE << <<"success", "migrated">> >>),
                                      <<>>, << [data |-> m.locs, ok |-> sv.ok] >>,
                                      m.added, FALSE)
                  ELSE /\ last' = Did("migrate", file,
                                      << <<"info", "found">>, <<"warning", "already">> >>,
                                      <<>>, <<>>, m.added, FALSE)
                       /\ UNCHANGED store
    /\ UNCHANGED <<loaded, edit_mode, edit_id, now, saving>>

ICON_VALUES == {Lit("Default"), Lit("cactus"), Lit("tree")}
BG_OPTIONS == {Lit("Default (#F5DEB3)"), Lit("Light Blue")}
\* the selectbox default: the stored value if it is an option, else option 0
IconChoice(loc) ==
    LET v == GetOr(loc, "icon", Lit("Default"))
    IN IF v \in ICON_VALUES THEN v ELSE Lit("Default")
BgChoice(loc) ==
    LET v == GetOr(loc, "bg_color", Lit("Default (#F5DEB3)"))
    IN IF v \in BG_OPTIONS THEN v ELSE Lit("Default (#F5DEB3)")

\* next((i for i, item in enumerate(locations) if item["id"] == edit_id), -1)
EditIndex ==
    IF \E i \in 1..Len(locations) : Get(locations[i], "id") = edit_id
    THEN CHOOSE i \in 1..Len(locations) :
            /\ Get(locations[i], "id") = edit_id
            /\ \A j \in 1..(i - 1) : Get(locations[j], "id") # edit_id
    ELSE -1

\* the edit form is on the page
EditView == loaded /\ Len(locations) > 0 /\ edit_mode /\ Truthy(edit_id) /\ EditIndex # -1

\* the button "Edit" under the details of the selected point p
EditButton(p) ==
    /\ loaded /\ nops < MaxOps
    /\ Len(locations) > 0
    /\ ~(edit_mode /\ Truthy(edit_id))
    /\ p \in 1..Len(locations)
    /\ nops' = nops + 1
    /\ edit_mode' = TRUE
    /\ edit_id' = Get(locations[p], "id")
    /\ last' = Did("edit", <<p>>, <<>>, <<>>, <<>>, 0, FALSE)
    /\ UNCHANGED <<store, loaded, locations, now, saving>>

\* the images whose "Delete" box is not ticked
KeptImages(images, keep) ==
    LET idx == SelectSeq([i \in 1..Len(images) |-> i], LAMBDA i : keep[i])
    IN [k \in 1..Len(idx) |-> images[idx[k]]]

\* the form "Update" of the edit view
UpdateLocation(new_name, moved, keep, files, net) ==
    /\ EditView /\ nops < MaxOps
    /\ nops' = nops + 1
    /\ LET loc_to_edit == locations[EditIndex]
           new_x == IF moved THEN PyInt(0) ELSE Get(loc_to_edit, "x")
           new_y == Get(loc_to_edit, "y")
           new_z == IF moved THEN PyInt(0) ELSE Get(loc_to_edit, "z")
           current_images == GetOr(loc_to_edit, "image_paths", PyList(<<>>))[2]
           images_to_keep == KeptImages(current_images, keep)
           up == UploadAll(files, 1, images_to_keep, <<>>, FALSE)
           l1 == Put(loc_to_edit, "name", FinalName(new_name, new_x, new_z))
           l2 == Put(Put(Put(l1, "x", new_x), "y", new_y), "z", new_z)
           l3 == Put(l2, "description", Get(loc_to_edit, "description"))
           l4 == Put(Put(l3, "icon", IconChoice(loc_to_edit)), "bg_color", BgChoice(loc_to_edit))
           l5 == Put(l4, "image_paths", PyList(up.paths))
           locs == [locations EXCEPT ![EditIndex] = l5]
           sv == SaveAllData(locs, store, net)
       IN /\ Len(keep) = Len(current_images)
          /\ locations' = locs
          /\ store' = sv.sheet
          /\ last' = Did("update", <<EditIndex, keep>>,
                         up.reports \o NetReports(IF sv.ok THEN "ok" ELSE net)
                           \o (IF sv.raised THEN <<>> ELSE << <<"success", "updated">> >>),
                         Uploads(files),
                         << [data |-> locs, ok |-> sv.ok] >>, 0, sv.raised)
          /\ edit_mode' = (sv.raised /\ edit_mode)
          /\ edit_id' = IF sv.raised THEN edit_id ELSE PyNone
    /\ UNCHANGED <<loaded, now, saving>>

\* the else branch of the edit view: edit mode is on and no location has the
\* id, st.error("Location not found")
NotFound == loaded /\ edit_mode /\ Truthy(edit_id) /\ EditIndex = -1

\* a cancel that leaves edit_id as it is
CancelEditKeepId ==
    /\ EditView /\ nops < MaxOps
    /\ nops' = nops + 1
    /\ edit_mode' = FALSE
    /\ edit_id' = edit_id
    /\ last' = Did("cancel", <<>>, <<>>, <<>>, <<>>, 0, FALSE)
    /\ UNCHANGED <<store, loaded, locations, now, saving>>

\* the button "Cancel" of the edit view
CancelEdit ==
    /\ EditView /\ nops < MaxOps
    /\ nops' = nops + 1
    /\ edit_mode' = FALSE
    /\ edit_id' = PyNone
    /\ last' = Did("cancel", <<>>, <<>>, <<>>, <<>>, 0, FALSE)
    /\ UNCHANGED <<store, loaded, locations, now, saving>>

\* a pop() that forgets its index and removes the last item
PopLast(locs, k) == SubSeq(locs, 1, Len(locs) - 1)

\* locations.pop(edit_index)
PopAt(locs, k) == [i \in 1..(Len(locs) - 1) |-> IF i < k THEN locs[i] ELSE locs[i + 1]]

\* the button "Delete" of the edit view
DeleteLocation(net) ==
    /\ EditView /\ nops < MaxOps
    /\ nops' = nops + 1
    /\ LET locs == PopAt(locations, EditIndex)
           sv == SaveAllData(locs, store, net)
       IN /\ locations' = locs
          /\ store' = sv.sheet
          /\ last' = Did("delete", <<EditIndex, net>>,
                         NetReports(IF sv.ok THEN "ok" ELSE net)
                           \o (IF sv.raised THEN <<>> ELSE << <<"success", "deleted">> >>),
                         <<>>, << [data |-> locs, ok |-> sv.ok] >>, 0, sv.raised)
          /\ edit_mode' = (sv.raised /\ edit_mode)
          /\ edit_id' = IF sv.raised THEN edit_id ELSE PyNone
    /\ UNCHANGED <<loaded, now, saving>>

\* a second passes
Tick ==
    /\ now < MaxClock
    /\ now' = now + 1
    /\ UNCHANGED <<store, loaded, locations, edit_mode, edit_id, nops, last, saving>>

\* two sessions, each inside one save_all_data(data) on the same worksheet:
\* saving.pc is where each call stands, saving.data what it was passed and
\* saving.order the sessions whose last write to the sheet ended, in order
Sessions == {1, 2}
NoSaving == [pc |-> [s \in Sessions |-> "idle"], data |-> [s \in Sessions |-> <<>>], order |-> <<>>]

\* save_all_data up to worksheet.clear(); an empty collection returns here
SaveClear(s, net) ==
    /\ saving.pc[s] = "called"
    /\ IF net = "ok"
       THEN /\ store' = <<>>
            /\ saving' = IF Len(saving.data[s]) = 0
                         THEN [saving EXCEPT !.pc[s] = "done", !.order = Append(@, s)]
                         ELSE [saving EXCEPT !.pc[s] = "cleared"]
       ELSE /\ saving' = [saving EXCEPT !.pc[s] = "failed"]
            /\ UNCHANGED store
    /\ UNCHANGED <<loaded, locations, edit_mode, edit_id, now, nops, last>>

\* save_all_data from the DataFrame to worksheet.update([header] + values)
SaveUpdate(s, net) ==
    /\ saving.pc[s] = "cleared"
    /\ IF net = "ok"
       THEN /\ store' = Overlay(store, EncodeSheet(saving.data[s]))
            /\ saving' = [saving EXCEPT !.pc[s] = "done", !.order = Append(@, s)]
       ELSE /\ saving' = [saving EXCEPT !.pc[s] = "failed"]
            /\ UNCHANGED store
    /\ UNCHANGED <<loaded, locations, edit_mode, edit_id, now, nops, last>>

\* ------------------------------------------------------------ inputs
\* sequences over S of length at most n
RECURSIVE SeqsUpTo(_, _)
SeqsUpTo(S, n) ==
    IF n = 0 THEN {<<>>}
    ELSE LET shorter == SeqsUpTo(S, n - 1)
         IN shorter \cup {Append(t, e) : t \in {u \in shorter : Len(u) = n - 1}, e \in S}

AppHeader == <<"id", "name", "x", "y", "z", "description", "image_paths", "icon", "bg_color">>
\* a sheet written by an earlier session
SheetWritten ==
    << AppHeader,
       << <<"1", "9">>, <<"a">>, <<"1">>, <<"6", "4">>, <<"0">>, <<>>,
          <<"[", Q, "h", "0", Q, "]">>, <<"Default">>, <<"Default (#F5DEB3)">> >> >>
\* a sheet edited by hand: no bg_color column, an empty coordinate, an
\* unknown icon and comma-separated image paths
SheetByHand ==
    << <<"id", "name", "x", "y", "z", "description", "icon", "image_paths">>,
       << <<"1", "7">>, <<"g">>, <<>>, <<"6", "4">>, <<"5">>, <<"g">>,
          <<"star">>, <<"h", "1", ",", SP, "h", "2">> >> >>
InitialSheets == {<<>>, SheetWritten, SheetByHand}

LegacyBase(id, name) ==
    << <<"id", PyStr(id)>>, <<"name", PyStr(name)>>, <<"x", PyInt(1)>>, <<"y", PyInt(2)>>,
       <<"z", PyInt(3)>>, <<"description", PyStr(<<>>)>> >>
\* an old record with the singular image_path and no icon
LegacyOld == Append(LegacyBase(<<"1", "7">>, <<"a">>), <<"image_path", PyStr(<<"a", B, "g">>)>>)
\* a record of the same id that has image_paths and an empty image_path
LegacyDup ==
    LegacyBase(<<"1", "7">>, <<"g">>) \o
       << <<"icon", Lit("cactus")>>, <<"image_path", PyStr(<<>>)>>,
          <<"image_paths", PyList(<<PyStr(<<"a", ",", "g">>)>>)>> >>
\* a record that carries no id
LegacyNoId == << <<"name", PyStr(<<"g">>)>> >>
LegacyRecords == {LegacyOld, LegacyDup, LegacyNoId}
FileOk(d) == [state |-> "ok", data |-> d]
FileBad == {[state |-> "missing", data |-> <<>>], [state |-> "unreadable", data |-> <<>>]}
\* every locations.json of at most MaxLegacy records
LegacyFiles == FileBad \cup {FileOk(d) : d \in SeqsUpTo(LegacyRecords, MaxLegacy)}
\* the files of the whole-session specification
FewLegacyFiles ==
    FileBad \cup {FileOk(<<>>), FileOk(<<LegacyOld>>), FileOk(<<LegacyOld, LegacyDup>>),
                  FileOk(<<LegacyOld, LegacyNoId>>)}

AddNames == {<<>>, <<SP>>, <<SP, "g">>, <<"a">>}
\* every list of outcomes for at most MaxFiles files
FileSets == SeqsUpTo(UploadOutcome, MaxFiles)
\* two files, one of which fails
FewFileSets == {<<>>, <<"ok", "raise">>, <<"nourl", "ok">>}
Form(name, x, y, z, files) == [name |-> name, x |-> x, y |-> y, z |-> z, files |-> files]
\* the add form with each coordinate left empty in turn
BadForms ==
    {Form(<<"a">>, PyNone, PyInt(64), PyInt(-3), <<"ok">>),
     Form(<<"a">>, PyInt(10), PyNone, PyInt(-3), <<"ok">>),
     Form(<<>>, PyInt(10), PyInt(64), PyNone, <<"ok">>)}
\* the submissions of the add form: every name without files, every file
\* list under one name, and the forms without a coordinate
AddForms ==
    {Form(n, PyInt(10), PyInt(64), PyInt(-3), <<>>) : n \in AddNames}
    \cup {Form(<<"a">>, PyInt(10), PyInt(64), PyInt(-3), f) : f \in FileSets}
    \cup BadForms
FewAddForms ==
    {Form(<<"a">>, PyInt(10), PyInt(64), PyInt(-3), f) : f \in FewFileSets} \cup BadForms
\* the submissions of the edit form
EditForm(name, moved, keepall, files) ==
    [name |-> name, moved |-> moved, keepall |-> keepall, files |-> files]
EditForms ==
    {EditForm(n, FALSE, TRUE, <<>>) : n \in AddNames}
    \cup {EditForm(<<"a">>, TRUE, TRUE, <<>>)}
    \cup {EditForm(<<"a">>, FALSE, k, f) : k \in BOOLEAN, f \in FewFileSets}
KeepMask(n, keepall) == [i \in 1..n |-> keepall \/ i > 1]
CurrentImages == GetOr(locations[EditIndex], "image_paths", PyList(<<>>))[2]

\* hand-edited sheets: one row whose image_paths cell is any text of at
\* most MaxCell characters
CellChars == {"[", "]", Q, ",", SP, "a", "1"}
CellSheet(cell) ==
    << <<"id", "name", "x", "y", "z", "description", "icon", "image_paths">>,
       << <<"1", "7">>, <<"g">>, <<"1">>, <<"6", "4">>, <<"5">>, <<>>, <<"Default">>, cell >> >>
CellSheets == {CellSheet(c) : c \in SeqsUpTo(CellChars, MaxCell)}

\* locations.json with one record whose image_paths is one path of at most
\* MaxPathLen characters, alone or followed by a one-character path
PathChars == {"a", ",", Q, B, "[", SP}
PathStrings == SeqsUpTo(PathChars, MaxPathLen) \ {<<>>}
PathLists ==
    {<<PyStr(u)>> : u \in PathStrings}
    \cup {<<PyStr(u), PyStr(<<c>>)>> : u \in PathStrings, c \in PathChars}
PathRecord(l) ==
    LegacyBase(<<"1", "7">>, <<"a">>) \o << <<"icon", Lit("Default")>>, <<"image_paths", PyList(l)>> >>
PathFiles == {FileOk(<<PathRecord(l)>>) : l \in PathLists}

Init ==
    /\ store \in InitialSheets
    /\ loaded = FALSE
    /\ locations = <<>>
    /\ edit_mode = FALSE
    /\ edit_id = PyNone
    /\ now = 0
    /\ nops = 0
    /\ last = [kind |-> "init", arg |-> <<>>, reports |-> <<>>, uploads |-> <<>>,
               saves |-> <<>>, added |-> 0, raised |-> FALSE, before |-> <<>>,
               sheet |-> store, prev |-> [kind |-> "none", arg |-> <<>>, saves |-> <<>>],
               start |-> store, removed |-> {}]
    /\ saving = NoSaving

Add == \E f \in AddForms, net \in SaveNet :
          AddLocation(f.name, f.x, f.y, f.z, Lit("Default"), f.files, net)
Update == \E f \in EditForms, net \in SaveNet :
            /\ EditView
            /\ UpdateLocation(f.name, f.moved, KeepMask(Len(CurrentImages), f.keepall), f.files, net)
Delete == \E net \in SaveNet : DeleteLocation(net)
Edit == \E p \in 1..Len(locations) : EditButton(p)
Start == \E net \in LoadNet : Load(net)

\* one session, every handler
Next ==
    \/ Start
    \/ Add
    \/ \E file \in FewLegacyFiles, net \in SaveNet : Migrate(file, net)
    \/ Edit
    \/ Update
    \/ CancelEdit
    \/ Delete
    \/ Tick

Spec == Init /\ [][Next]_vars

\* one session that only imports, every locations.json
NextMigrate ==
    \/ Start
    \/ \E file \in LegacyFiles, net \in SaveNet : Migrate(file, net)

SpecMigrate == Init /\ [][NextMigrate]_vars

\* one session that only adds
NextAdd ==
    \/ Start
    \/ \E f \in FewAddForms, net \in SaveNet :
          AddLocation(f.name, f.x, f.y, f.z, Lit("Default"), f.files, net)
    \/ Tick

SpecAdd == Init /\ [][NextAdd]_vars

\* the codec: a session starts on a hand-edited sheet, or imports image
\* paths into an empty map
InitCodec ==
    /\ store \in CellSheets \cup {<<>>}
    /\ loaded = FALSE
    /\ locations = <<>>
    /\ edit_mode = FALSE
    /\ edit_id = PyNone
    /\ now = 0
    /\ nops = 0
    /\ last = [kind |-> "init", arg |-> <<>>, reports |-> <<>>, uploads |-> <<>>,
               saves |-> <<>>, added |-> 0, raised |-> FALSE, before |-> <<>>,
               sheet |-> store, prev |-> [kind |-> "none", arg |-> <<>>, saves |-> <<>>],
               start |-> store, removed |-> {}]
    /\ saving = NoSaving

NextCodec ==
    \/ Start
    \/ \E file \in PathFiles, net \in SaveNet :
          /\ store = <<>> /\ Len(locations) = 0
          /\ Migrate(file, net)

SpecCodec == InitCodec /\ [][NextCodec]_vars

\* locations.json with one record of every legacy shape: image_path missing,
\* empty or set, with or without image_paths, with or without icon
PathKinds == {"missing", "empty", "set"}
LegacyShaped(path, paths, icon) ==
    LegacyBase(<<"1", IF path = "missing" THEN "7" ELSE IF path = "empty" THEN "8" ELSE "9">>,
               <<"a">>)
      \o (IF icon THEN << <<"icon", Lit("cactus")>> >> ELSE <<>>)
      \o (IF path = "missing" THEN <<>>
          ELSE << <<"image_path", PyStr(IF path = "empty" THEN <<>> ELSE <<"a", ".", "g">>)>> >>)
      \o (IF paths THEN << <<"image_paths", PyList(<<PyStr(<<"h", "0">>)>>)>> >> ELSE <<>>)
ShapeFiles ==
    {FileOk(<<LegacyShaped(p, ps, ic)>>) : p \in PathKinds, ps \in BOOLEAN, ic \in BOOLEAN}

\* one session that imports records of every legacy shape
NextFix ==
    \/ Start
    \/ \E file \in ShapeFiles, net \in SaveNet : Migrate(file, net)

SpecFix == Init /\ [][NextFix]_vars

\* sheets of two rows: two locations added a second apart, and two added
\* in the same second
SecondRow(id) ==
    << id, <<"g">>, <<"2">>, <<"6", "4">>, <<"-", "3">>, <<"g">>,
       <<"[", Q, "h", "1", Q, ",", SP, Q, "h", "2", Q, "]">>, <<"cactus">>, <<"Light Blue">> >>
SheetTwoRows == Append(SheetWritten, SecondRow(<<"2", "0">>))
SheetSameId == Append(SheetWritten, SecondRow(<<"1", "9">>))

\* one session that only edits what it loaded
InitEdit ==
    /\ store \in InitialSheets \cup {SheetTwoRows, SheetSameId}
    /\ loaded = FALSE
    /\ locations = <<>>
    /\ edit_mode = FALSE
    /\ edit_id = PyNone
    /\ now = 0
    /\ nops = 0
    /\ last = [kind |-> "init", arg |-> <<>>, reports |-> <<>>, uploads |-> <<>>,
               saves |-> <<>>, added |-> 0, raised |-> FALSE, before |-> <<>>,
               sheet |-> store, prev |-> [kind |-> "none", arg |-> <<>>, saves |-> <<>>],
               start |-> store, removed |-> {}]
    /\ saving = NoSaving

NextEdit ==
    \/ Start
    \/ Edit
    \/ Update
    \/ CancelEdit
    \/ Delete

SpecEdit == InitEdit /\ [][NextEdit]_vars

\* a sheet of two rows whose second id is 0
SheetZeroId == Append(SheetWritten, SecondRow(<<"0">>))

\* one session that edits while it adds and imports
InitMode ==
    /\ store \in InitialSheets \cup {SheetTwoRows, SheetSameId, SheetZeroId}
    /\ loaded = FALSE
    /\ locations = <<>>
    /\ edit_mode = FALSE
    /\ edit_id = PyNone
    /\ now = 0
    /\ nops = 0
    /\ last = [kind |-> "init", arg |-> <<>>, reports |-> <<>>, uploads |-> <<>>,
               saves |-> <<>>, added |-> 0, raised |-> FALSE, before |-> <<>>,
               sheet |-> store, prev |-> [kind |-> "none", arg |-> <<>>, saves |-> <<>>],
               start |-> store, removed |-> {}]
    /\ saving = NoSaving

NextMode ==
    \/ Start
    \/ \E net \in SaveNet :
          AddLocation(<<"a">>, PyInt(10), PyInt(64), PyInt(-3), Lit("Default"), <<>>, net)
    \/ \E net \in SaveNet : Migrate(FileOk(<<LegacyOld>>), net)
    \/ Edit
    \/ \E net \in SaveNet :
          /\ EditView
          /\ UpdateLocation(<<"a">>, TRUE, KeepMask(Len(CurrentImages), FALSE), <<>>, net)
    \/ CancelEdit
    \/ Delete

SpecMode == InitMode /\ [][NextMode]_vars

\* a sheet made by hand with few of the columns and one of its own
SheetSparse ==
    << <<"id", "name", "x", "z", "biome">>,
       << <<"1", "7">>, <<"g">>, <<"5">>, <<>>, <<"g">> >> >>

\* one session that adds to what it loaded, sparse sheets included
InitColumns ==
    /\ store \in InitialSheets \cup {SheetSparse}
    /\ loaded = FALSE
    /\ locations = <<>>
    /\ edit_mode = FALSE
    /\ edit_id = PyNone
    /\ now = 0
    /\ nops = 0
    /\ last = [kind |-> "init", arg |-> <<>>, reports |-> <<>>, uploads |-> <<>>,
               saves |-> <<>>, added |-> 0, raised |-> FALSE, before |-> <<>>,
               sheet |-> store, prev |-> [kind |-> "none", arg |-> <<>>, saves |-> <<>>],
               start |-> store, removed |-> {}]
    /\ saving = NoSaving

NextColumns ==
    \/ Start
    \/ \E f \in FewAddForms, net \in SaveNet :
          AddLocation(f.name, f.x, f.y, f.z, Lit("Default"), f.files, net)
    \/ Tick

SpecColumns == InitColumns /\ [][NextColumns]_vars

\* the collections of two sessions: empty, one location with bg_color, one
\* without, and two without
Snapshots ==
    {<<>>, LoadData(SheetWritten, "ok").rows, LoadData(SheetByHand, "ok").rows,
     Append(LoadData(SheetByHand, "ok").rows, FixLegacy(LegacyOld))}

\* two sessions that each call save_all_data once
InitRace ==
    /\ store \in InitialSheets
    /\ loaded = FALSE
    /\ locations = <<>>
    /\ edit_mode = FALSE
    /\ edit_id = PyNone
    /\ now = 0
    /\ nops = 0
    /\ last = [kind |-> "init", arg |-> <<>>, reports |-> <<>>, uploads |-> <<>>,
               saves |-> <<>>, added |-> 0, raised |-> FALSE, before |-> <<>>,
               sheet |-> store, prev |-> [kind |-> "none", arg |-> <<>>, saves |-> <<>>],
               start |-> store, removed |-> {}]
    /\ \E d1, d2 \in Snapshots :
          saving = [pc |-> [s \in Sessions |-> "called"],
                    data |-> [s \in Sessions |-> IF s = 1 THEN d1 ELSE d2],
                    order |-> <<>>]

NextRace ==
    \/ \E s \in Sessions, net \in {"ok", "nosheet", "clearfail"} : SaveClear(s, net)
    \/ \E s \in Sessions, net \in {"ok", "updatefail"} : SaveUpdate(s, net)

SpecRace == InitRace /\ [][NextRace]_vars

\* ------------------------------------------------------ properties
Saved == Len(last.saves) > 0
SavedOk == Saved /\ last.saves[1].ok
SaveFailed == Saved /\ ~last.saves[1].ok
PrevSaveFailed == Len(last.prev.saves) > 0 /\ ~last.prev.saves[1].ok
Ids(locs) == {Get(locs[i], "id") : i \in 1..Len(locs)}
DistinctIds(locs) ==
    \A i, j \in 1..Len(locs) : i # j => Get(locs[i], "id") # Get(locs[j], "id")
\* the sheet holds the rows of locs and nothing else
StoreHolds(locs) == IF Len(locs) = 0 THEN store = <<>> ELSE store = EncodeSheet(locs)
Count(seq, Test(_)) == Len(SelectSeq(seq, Test))

\* C1: a handler that changed the collection called save_data once, with
\* the collection as it now is, and when that save succeeded the sheet
\* holds exactly the encoding of the collection
C1_MutateThenPersist ==
    (last.kind \in {"add", "update", "delete", "migrate"} /\ locations # last.before)
        => /\ Len(last.saves) = 1
           /\ last.saves[1].data = locations
           /\ (last.saves[1].ok => StoreHolds(locations))

\* a non-empty list of strings
IsPathList(v) == IsList(v) /\ Len(v[2]) > 0 /\ \A i \in 1..Len(v[2]) : IsStr(v[2][i])
Decoded == LoadData(store, "ok").rows

\* C2: after a save that succeeded, load_data decodes every row's
\* image_paths cell to the image_paths of the location it was written from,
\* whenever that is a non-empty list of strings
C2_ImagePathRoundTrip ==
    SavedOk =>
        /\ Len(Decoded) = Len(locations)
        /\ \A i \in 1..Len(locations) :
              (Has(locations[i], "image_paths") /\ IsPathList(Get(locations[i], "image_paths")))
                  => Get(Decoded[i], "image_paths") = Get(locations[i], "image_paths")

\* C2 witness: two imported paths holding a quote, a comma and a backslash
\* were saved
C2_Witness ==
    /\ last.kind = "migrate" /\ SavedOk
    /\ Len(locations) = 1
    /\ Get(locations[1], "image_paths") = PyList(<<PyStr(<<Q, ",">>), PyStr(<<B>>)>>)

\* the image_paths cell of row i of the sheet
ImageCell(sheet, i) == sheet[i + 1][CHOOSE j \in 1..Len(sheet[1]) : sheet[1][j] = "image_paths"]
WellFormedArray(cell) == LET r == JsonLoads(cell) IN r.ok /\ IsList(r.v)
LoadedOk == last.kind = "load" /\ last.arg = <<"ok">> /\ Len(store) = 2
NotJsonGarbage == <<"a", SP, "[", "a">>

\* C3 as stated: a session that read a one-row sheet did not raise, and a
\* cell that is not a well-formed JSON array was decoded to []
C3_GarbageDecodesToEmpty ==
    LoadedOk =>
        /\ ~last.raised /\ Len(locations) = 1
        /\ ~WellFormedArray(ImageCell(store, 1))
              => Get(locations[1], "image_paths") = PyList(<<>>)

\* C3 amended: load_data does not raise and drops no row because of an
\* image_paths cell; a cell that starts with "[" and is not well-formed
\* JSON, and an empty cell, decode to []; a cell that does not start with
\* "[", holds no comma and is not blank or a number decodes to the list of
\* the one trimmed text
C3_DefensiveDecode ==
    /\ last.kind = "load" => (~last.raised /\ loaded)
    /\ LoadedOk =>
          LET cell == ImageCell(store, 1)
              v == Get(locations[1], "image_paths")
          IN /\ Len(locations) = 1 /\ last.reports = <<>>
             /\ (Len(cell) > 0 /\ cell[1] = "[" /\ ~JsonLoads(cell).ok) => v = PyList(<<>>)
             /\ Len(cell) = 0 => v = PyList(<<>>)
             /\ ( /\ Len(cell) > 0 /\ cell[1] # "["
                  /\ \A k \in 1..Len(cell) : cell[k] # ","
                  /\ Len(Strip(cell)) > 0 /\ ~IsIntText(Strip(cell)) )
                   => v = PyList(<<PyStr(Strip(cell))>>)

\* C3 witness: the cell "a [a", text that is no JSON, came back as the
\* list holding that text
C3_Witness ==
    /\ LoadedOk
    /\ ImageCell(store, 1) = NotJsonGarbage
    /\ Get(locations[1], "image_paths") = PyList(<<PyStr(NotJsonGarbage)>>)

Blank(name) == Len(Strip(name)) = 0

\* C4: the location appended by add, or changed by update, has a name that
\* is not empty, and add with a blank name and x = 10, z = -3 names it
\* "Location @ 10, -3"
C4_NameNeverEmpty ==
    /\ (last.kind = "add" /\ Saved) =>
          LET name == Get(locations[Len(locations)], "name")
          IN /\ name # PyStr(<<>>)
             /\ Blank(last.arg[4]) => name = PyStr(<<"Location @ ", "1", "0", ", ", "-", "3">>)
    /\ (last.kind = "update" /\ Saved) =>
          Get(locations[last.arg[1]], "name") # PyStr(<<>>)

SameImportAgain ==
    /\ last.kind = "migrate" /\ last.prev.kind = "migrate"
    /\ last.prev.arg = last.arg

\* C5: an import that follows an import of the same file leaves the
\* collection as it was, counts 0 added and calls no save
C5_MergeIdempotent ==
    SameImportAgain => (locations = last.before /\ last.added = 0 /\ ~Saved)

\* C5 witness: a file of two records was imported twice, and the first
\* import had added and saved
C5_Witness ==
    /\ SameImportAgain
    /\ last.arg.state = "ok" /\ Len(last.arg.data) = 2
    /\ Len(last.prev.saves) = 1
    /\ Len(locations) >= 2

\* C6: after an import of records that all carry an id into a collection
\* of distinct ids, the ids are still distinct and the count added is the
\* number of distinct ids of the file that were not in the collection
C6_MergeUniqueIds ==
    ( /\ last.kind = "migrate" /\ last.arg.state = "ok"
      /\ \A k \in 1..Len(last.arg.data) : Has(last.arg.data[k], "id")
      /\ DistinctIds(last.before) )
        => /\ DistinctIds(locations)
           /\ last.added = Cardinality(Ids(last.arg.data) \ Ids(last.before))

\* C7: a save that failed returned False without raising and left in the
\* collection what was passed to it, the new location included; and the
\* next add, when its save succeeds, writes the whole collection, the
\* earlier unsaved location included
C7_WriteFailureKeepsMemory ==
    /\ SaveFailed =>
          /\ ~last.raised
          /\ locations = last.saves[1].data
          /\ Len(locations) = Len(last.before) + 1
          /\ SubSeq(locations, 1, Len(last.before)) = last.before
    /\ (last.kind = "add" /\ SavedOk /\ PrevSaveFailed) =>
          /\ last.prev.saves[1].data = last.before
          /\ SubSeq(locations, 1, Len(last.before)) = last.before
          /\ store = EncodeSheet(locations)
          /\ Len(store) = Len(last.before) + 2

\* C7 witness: an add whose save failed, then an add whose save succeeded
C7_Witness ==
    /\ last.kind = "add" /\ SavedOk /\ PrevSaveFailed
    /\ last.prev.kind = "add"
    /\ Len(locations) >= 2

LoadDown(kind, arg) == kind = "load" /\ arg = <<"down">>

\* C8: a load that could not get the worksheet, or whose read raised, did
\* not raise and gave the session an empty collection; and a valid add
\* right after it works
C8_LoadNeverFails ==
    /\ LoadDown(last.kind, last.arg) =>
          (~last.raised /\ loaded /\ locations = <<>> /\ last.reports # <<>>)
    /\ (last.kind = "add" /\ LoadDown(last.prev.kind, last.prev.arg)
          /\ ~CoordsMissing(last.arg[1], last.arg[2], last.arg[3]))
          => (~last.raised /\ Len(locations) = 1)

\* C8 witness: the sheet had a row, the load failed, and a location was
\* added to the empty collection
C8_Witness ==
    /\ last.kind = "add" /\ LoadDown(last.prev.kind, last.prev.arg)
    /\ Len(locations) = 1
    /\ Len(last.sheet) = 2

IsFail(u) == u[2] # "ok"
IsOk(u) == u[2] = "ok"
IsWarning(r) == r[1] = "warning"
\* the URLs of the uploads that succeeded, in order
UrlsOf(uploads) ==
    LET oks == SelectSeq(uploads, IsOk)
    IN [i \in 1..Len(oks) |-> PyStr(UrlOf(oks[i][1]))]

\* C10: an add or update that uploaded files called upload_image for each
\* file in order, ended with the kept images followed by the URLs of the
\* uploads that succeeded, and reported one warning for each failed file
C10_PartialUpload ==
    (last.kind \in {"add", "update"} /\ Saved) =>
        LET kept == IF last.kind = "add" THEN <<>>
                    ELSE KeptImages(GetOr(last.before[last.arg[1]], "image_paths",
                                          PyList(<<>>))[2], last.arg[2])
            loc == IF last.kind = "add" THEN locations[Len(locations)]
                   ELSE locations[last.arg[1]]
        IN /\ Get(loc, "image_paths") = PyList(kept \o UrlsOf(last.uploads))
           /\ Count(last.reports, IsWarning) = Count(last.uploads, IsFail)

KnownIcon(loc) == Has(loc, "icon") /\ Get(loc, "icon") \in ICON_VALUES
KnownBg(loc) == Has(loc, "bg_color") /\ Get(loc, "bg_color") \in BG_OPTIONS

\* C11: every location that load_data returned carries an icon and a
\* background colour of the enumerated sets, and no location of the session
\* carries an icon outside the enumerated set
C11_IconAlwaysKnown ==
    /\ last.kind = "load" =>
          \A i \in 1..Len(locations) : KnownIcon(locations[i]) /\ KnownBg(locations[i])
    /\ loaded => \A i \in 1..Len(locations) : KnownIcon(locations[i])


\* the cell of column col in row i of the sheet
CellOf(sheet, i, col) == sheet[i + 1][CHOOSE j \in 1..Len(sheet[1]) : sheet[1][j] = col]
Coords == {"x", "y", "z"}

\* C12: load_data decodes an empty coordinate cell to None and the cell "0"
\* to the int 0; and after a save that succeeded a coordinate that is None
\* is an empty cell that load_data decodes to None again, and a coordinate
\* 0 is decoded to 0
C12_AbsentIsNotZero ==
    /\ (last.kind = "load" /\ last.arg = <<"ok">>) =>
          \A i \in 1..Len(locations), col \in Coords :
             /\ CellOf(store, i, col) = <<>> => Get(locations[i], col) = PyNone
             /\ CellOf(store, i, col) = <<"0">> => Get(locations[i], col) = PyInt(0)
    /\ SavedOk =>
          \A i \in 1..Len(locations), col \in Coords :
             /\ Get(locations[i], col) = PyNone =>
                   (CellOf(store, i, col) = <<>> /\ Get(Decoded[i], col) = PyNone)
             /\ Get(locations[i], col) = PyInt(0) => Get(Decoded[i], col) = PyInt(0)

\* C12 witness: a location loaded without x was saved along with a new one,
\* and its x cell is empty
C12_Witness ==
    /\ last.kind = "add" /\ SavedOk
    /\ Len(locations) = 2
    /\ Get(locations[1], "x") = PyNone
    /\ CellOf(store, 1, "x") = <<>>

\* C13: a record that an import appended has no image_path; when the
\* record of the file had no image_paths, its image_paths is the list of the
\* one non-empty image_path, or the empty list when image_path was missing
\* or empty; when it had no icon its icon is "Default"; an image_paths or
\* icon it had is kept; and no location of the session carries image_path
C13_LegacyMigration ==
    /\ (last.kind = "migrate" /\ last.arg.state = "ok" /\ last.added = 1) =>
          LET src == last.arg.data[1]
              loc == locations[Len(locations)]
              nopath == ~Has(src, "image_path") \/ Get(src, "image_path") = PyStr(<<>>)
          IN /\ ~Has(loc, "image_path")
             /\ (~Has(src, "image_paths") /\ ~nopath)
                   => Get(loc, "image_paths") = PyList(<<Get(src, "image_path")>>)
             /\ (~Has(src, "image_paths") /\ nopath) => Get(loc, "image_paths") = PyList(<<>>)
             /\ Has(src, "image_paths") => Get(loc, "image_paths") = Get(src, "image_paths")
             /\ ~Has(src, "icon") => Get(loc, "icon") = Lit("Default")
             /\ Has(src, "icon") => Get(loc, "icon") = Get(src, "icon")
    /\ \A i \in 1..Len(locations) : ~Has(locations[i], "image_path")

\* C13 witness: a record with image_path "a.g", without image_paths and
\* without icon was imported
C13_Witness ==
    /\ last.kind = "migrate" /\ last.added = 1
    /\ last.arg.data = <<LegacyShaped("set", FALSE, FALSE)>>
    /\ Get(locations[Len(locations)], "image_paths") = PyList(<<PyStr(<<"a", ".", "g">>)>>)
    /\ Get(locations[Len(locations)], "icon") = Lit("Default")

BothDone == \A s \in Sessions : saving.pc[s] = "done"
LastWriter == saving.order[Len(saving.order)]
SheetOf(data) == IF Len(data) = 0 THEN <<>> ELSE EncodeSheet(data)

\* C14: once the saves of both sessions have returned True, the sheet holds
\* exactly the rows of the session whose write ended last
C14_LastOverwriteWins ==
    BothDone => store = SheetOf(saving.data[LastWriter])

\* C15: deleting the only location calls save_data with the empty
\* collection; when the worksheet is there and clear() works, the call
\* returns True without raising or reporting an error and leaves the sheet
\* empty, with no header, whether or not an update would have worked
C15_SaveEmpty ==
    (last.kind = "delete" /\ last.saves[1].data = <<>>
        /\ last.arg[2] \notin {"nosheet", "clearfail"})
        => /\ last.saves[1].ok /\ ~last.raised
           /\ store = <<>>
           /\ last.reports = << <<"success", "deleted">> >>

\* C15 witness: the only row of the sheet was deleted while update() would
\* have failed
C15_Witness ==
    /\ last.kind = "delete" /\ last.arg[2] = "updatefail"
    /\ Len(last.sheet) = 2 /\ Len(last.before) = 1
    /\ locations = <<>> /\ store = <<>> /\ last.saves[1].ok

\* C16: an import leaves the locations that were there as they were and
\* where they were, and what it appended is the fixed records of the file
\* whose id was not among the ids before, in the order of the file
C16_MergeKeepsExisting ==
    (last.kind = "migrate" /\ last.arg.state = "ok") =>
        /\ Len(locations) >= Len(last.before)
        /\ SubSeq(locations, 1, Len(last.before)) = last.before
        /\ (\A k \in 1..Len(last.arg.data) : Has(last.arg.data[k], "id")) =>
              SubSeq(locations, Len(last.before) + 1, Len(locations))
                = SelectSeq([k \in 1..Len(last.arg.data) |-> FixLegacy(last.arg.data[k])],
                            LAMBDA r : Get(r, "id") \notin Ids(last.before))

\* C16 witness: a record was imported, then a file holding a different
\* record of the same id followed by nothing new: the first is still there
\* as it was
C16_Witness ==
    /\ last.kind = "migrate" /\ last.prev.kind = "migrate"
    /\ last.prev.arg = FileOk(<<LegacyOld>>)
    /\ last.arg = FileOk(<<LegacyDup>>)
    /\ Len(last.before) > 0
    /\ locations = last.before
    /\ locations[Len(locations)] = FixLegacy(LegacyOld)

SeqSet(q) == {q[i] : i \in 1..Len(q)}
NoRepeat(q) == \A a, b \in 1..Len(q) : a # b => q[a] # q[b]
Absent(loc, col) == ~Has(loc, col) \/ IsNone(Get(loc, col))
RowsFit ==
    /\ Len(store) = Len(locations) + 1
    /\ \A i \in 1..Len(locations) : Len(store[i + 1]) = Len(store[1])

\* C17 as stated: after a save of a non-empty collection the header is id,
\* name, x, y, z, description, icon, image_paths, with or without bg_color
\* after them, every row has a cell per column, and a field that is missing
\* or None is an empty cell
C17_FixedColumnSet ==
    (SavedOk /\ Len(locations) > 0) =>
        /\ store[1] \in {required_cols, Append(required_cols, "bg_color")}
        /\ RowsFit
        /\ \A i \in 1..Len(locations), j \in 1..Len(store[1]) :
              Absent(locations[i], store[1][j]) => store[i + 1][j] = <<>>

\* C17 amended: the header holds each required column and each key of a
\* record once and nothing else, starting with the keys of the first record
\* in their order; every row has a cell per column; a field that is missing
\* or None is an empty cell, except image_paths, which is "[]" whenever it
\* is not a list
C17_ColumnsCoverKeys ==
    (SavedOk /\ Len(locations) > 0) =>
        /\ NoRepeat(store[1])
        /\ SeqSet(store[1])
             = SeqSet(required_cols) \cup UNION {SeqSet(Keys(locations[i])) : i \in 1..Len(locations)}
        /\ SubSeq(store[1], 1, Len(locations[1])) = Keys(locations[1])
        /\ RowsFit
        /\ \A i \in 1..Len(locations), j \in 1..Len(store[1]) :
              LET col == store[1][j]
                  loc == locations[i]
              IN /\ (col # "image_paths" /\ Absent(loc, col)) => store[i + 1][j] = <<>>
                 /\ (col = "image_paths" /\ (Absent(loc, col) \/ ~IsList(Get(loc, col))))
                       => store[i + 1][j] = <<"[", "]">>

\* C17 witness: a location loaded from the sparse sheet was saved with a
\* new one: the columns follow the keys as they came, and the loaded row
\* has "[]" for its image_paths and an empty bg_color
C17_Witness ==
    /\ last.kind = "add" /\ SavedOk /\ Len(locations) = 2
    /\ store[1] = <<"id", "name", "x", "z", "biome", "y", "description",
                    "image_paths", "icon", "bg_color">>
    /\ CellOf(store, 1, "image_paths") = <<"[", "]">>
    /\ CellOf(store, 1, "bg_color") = <<>>

\* C18: an update changes no location but the one the form shows, whose id
\* stays and is the id that the Edit button stored; a delete removes that
\* one location and leaves the others as they were and in their order
C18_EditInPlace ==
    /\ last.kind = "update" =>
          LET k == last.arg[1]
          IN /\ Len(locations) = Len(last.before)
             /\ \A i \in 1..Len(locations) : i # k => locations[i] = last.before[i]
             /\ Get(locations[k], "id") = Get(last.before[k], "id")
             /\ last.prev.kind = "edit" =>
                   Get(last.before[k], "id") = Get(last.before[last.prev.arg[1]], "id")
    /\ last.kind = "delete" =>
          LET k == last.arg[1]
          IN /\ Len(locations) = Len(last.before) - 1
             /\ \A i \in 1..Len(locations) :
                   locations[i] = IF i < k THEN last.before[i] ELSE last.before[i + 1]
             /\ last.prev.kind = "edit" =>
                   Get(last.before[k], "id") = Get(last.before[last.prev.arg[1]], "id")

\* C18 witness: the first of two locations was deleted and the second is
\* what is left
C18_Witness ==
    /\ last.kind = "delete" /\ last.arg[1] = 1
    /\ Len(last.before) = 2
    /\ locations = <<last.before[2]>>
    /\ last.before[1] # last.before[2]

\* C19: an add to a collection of distinct ids leaves the ids distinct
C19_UniqueIds ==
    (last.kind = "add" /\ DistinctIds(last.before)) => DistinctIds(locations)

\* the text of an id, as the sheet holds it
IdText(v) == CellText(v)
IdTexts(locs) == {IdText(Get(locs[i], "id")) : i \in 1..Len(locs)}
NothingToAdd ==
    /\ last.kind = "migrate"
    /\ \/ last.arg.state \in {"missing", "unreadable"}
       \/ /\ \A k \in 1..Len(last.arg.data) : Has(last.arg.data[k], "id")
          /\ IdTexts(last.arg.data) \subseteq IdTexts(last.before)

\* C20: an import of a file that is missing, unreadable or empty, or whose
\* records all have the id of a location of the session, leaves the
\* collection and the sheet as they were and calls no save
C20_ImportAddsNothing ==
    NothingToAdd => (locations = last.before /\ ~Saved /\ store = last.sheet)

\* the ids in the id column of a sheet
StoredIds(sheet) ==
    IF Len(sheet) = 0 THEN {} ELSE {CellOf(sheet, i, "id") : i \in 1..(Len(sheet) - 1)}

\* C21: whenever the last save of a session succeeded, every location that
\* was in the sheet when the session started and that no "Delete" of the
\* session popped is still in the sheet
C21_NoSilentLoss ==
    (loaded /\ SavedOk) => (StoredIds(last.start) \ last.removed) \subseteq StoredIds(store)

\* C22: whenever edit_mode is on, edit_id is the id of a location of the
\* session collection and the "Location not found" branch is not the one
\* the page takes; and after an update, a cancel or a delete edit_mode is
\* off and edit_id is None
C22_EditModeInvariant ==
    /\ edit_mode => (loaded /\ edit_id \in Ids(locations))
    /\ ~NotFound
    /\ last.kind \in {"update", "cancel", "delete"} => (~edit_mode /\ edit_id = PyNone)
\* an update that followed the Edit button of one of two locations
C22_Witness ==
    /\ last.kind = "update" /\ last.prev.kind = "edit"
    /\ Len(last.before) > 1
    /\ ~edit_mode /\ edit_id = PyNone

====
